---------------------------- MODULE Spec2Model ----------------------------
(***************************************************************************)
(* carbonstat: a process-local metric registry (CarbonStat) whose send()   *)
(* detaches the metric mapping, serializes it behind a heartbeat header    *)
(* and hands it to a UDP socket, merging the mapping back on socket.error. *)
(*                                                                         *)
(* Metric objects live on a heap (objs) and are referred to by identity,   *)
(* because the code shares them: the detached dict, the live dict, a       *)
(* producer's variable and a MetricTimer may all hold the same object.     *)
(* A flusher thread executes send() one source statement per step; a       *)
(* producer thread executes one registry lookup or one Metric/MetricTimer  *)
(* method call per step.                                                   *)
(***************************************************************************)
EXTENDS Integers, Sequences, FiniteSets, TLC

\* ---------------------------------------------------------------- bounds
MaxFlushes == 2      \* send() calls that pass the guard, per behaviour
MaxOps     == 3      \* producer mutations, per behaviour
MaxVal     == 1      \* largest argument of add/set and largest elapsed time
MaxCalls   == 7      \* MetricTimer calls, per behaviour of SpecTimer

\* ------------------------------------------------------------- constants
\* 2 ** 32 (carbonstat.py:189) is HalfWord * HalfWord. The heartbeat is kept as
\* two 16-bit halves << high, low >>, the number high * HalfWord + low, so
\* that the counter keeps its full 32-bit width; -1 is << -1, HalfWord - 1 >>.
HalfWord == 2 ^ 16

Names    == {"a", "b"}            \* metric names used by the producer
Flushers == {1, 2}                \* threads that may call send()
Amounts  == 1 .. MaxVal           \* arguments of add (incr by amount)
Values   == 0 .. MaxVal           \* arguments of set
Elapsed  == 1 .. MaxVal           \* time.time() - start_time, and add_ex
Inputs   == (-MaxVal) .. MaxVal   \* arguments of the calls SpecMetric records
Namespaces == {"", "app", "web"}  \* arguments of set_namespace
Now      == "now"                 \* time.time(), one abstract instant

\* Python None, float('inf') and float('-inf') are the empty tuple; a number
\* v is <<v>>.
None    == << >>
Some(v) == << v >>

\* ------------------------------------------------------------- Metric
\* Metric.__init__ / CarbonMetric.__init__
NewMetric(name, namespace) ==
    [ name |-> name, ns |-> namespace,
      simple_value |-> None, simple_timestamp |-> None,
      min |-> None, max |-> None, sum |-> 0, len |-> 0,
      timestamp |-> None, accumulate |-> FALSE, extended |-> FALSE ]

\* An object no reference reaches any more.
Dead == [ NewMetric("", "") EXCEPT !.name = "dead" ]

\* An add whose handler catches every error of +=, so that the value is
\* always assigned.
AddValueAssign(cur, value) == value

\* `self.simple_value += value`, with the TypeError branch: None on either
\* side makes += raise and the value is assigned instead.
AddValue(cur, value) ==
    IF cur = None \/ value = None THEN value ELSE Some(cur[1] + value[1])

\* Metric.add
MetricAdd(m, value) ==
    [ m EXCEPT !.simple_value = AddValue(m.simple_value, value),
               !.simple_timestamp = Some(Now) ]

\* Metric.set
MetricSet(m, value) ==
    [ m EXCEPT !.simple_value = value, !.simple_timestamp = Some(Now) ]

\* An add_ex whose second test is an `elif`: a value that lowers min is not
\* compared with max.
MetricAddExElif(m, v) ==
    [ m EXCEPT !.sum = m.sum + v,
               !.len = m.len + 1,
               !.min = IF m.min = None \/ v < m.min[1] THEN Some(v) ELSE m.min,
               !.max = IF m.min = None \/ v < m.min[1] THEN m.max
                       ELSE IF m.max = None \/ v > m.max[1] THEN Some(v) ELSE m.max,
               !.timestamp = Some(Now) ]

\* Metric.add_ex
MetricAddEx(m, v) ==
    [ m EXCEPT !.sum = m.sum + v,
               !.len = m.len + 1,
               !.min = IF m.min = None \/ v < m.min[1] THEN Some(v) ELSE m.min,
               !.max = IF m.max = None \/ v > m.max[1] THEN Some(v) ELSE m.max,
               !.timestamp = Some(Now) ]

\* Metric.avg: sum / float(len), kept as the fraction <<sum, len>>
MetricAvg(m) == << m.sum, m.len >>

\* getattr(self, value_name) for value_name in min, avg, max, as a fraction
GetAttr(m, value_name) ==
    CASE value_name = "min" -> << m.min[1], 1 >>
      [] value_name = "avg" -> MetricAvg(m)
      [] value_name = "max" -> << m.max[1], 1 >>

\* The dotted path of a line, as the tuple of its components.
QName(m) == IF m.ns # "" THEN << m.ns, m.name >> ELSE << m.name >>

\* `if self.simple_value:` in place of `is not None`: a 0 gives no line.
SimpleLinesIfTruthy(m) ==
    IF m.simple_value # None /\ m.simple_value[1] # 0
    THEN << << QName(m), << m.simple_value[1], 1 >>, m.simple_timestamp >> >>
    ELSE << >>

\* CarbonMetric.__str__: the list of lines <<path, value, timestamp>>
SimpleLines(m) ==
    IF m.simple_value # None
    THEN << << QName(m), << m.simple_value[1], 1 >>, m.simple_timestamp >> >>
    ELSE << >>

ExtendedLines(m) ==
    IF m.len # 0
    THEN [ i \in 1 .. 3 |->
             LET value_name == << "min", "avg", "max" >>[i]
             IN  << Append(QName(m), value_name), GetAttr(m, value_name),
                    m.timestamp >> ]
    ELSE << >>

Str(m) == SimpleLines(m) \o ExtendedLines(m)

\* ------------------------------------------------------------- state
VARIABLES
    ns,         \* CarbonStat.ns
    metrics,    \* CarbonStat.metrics: name -> generation of the object, 0 absent
    objs,       \* the heap: name -> generation -> Metric
    epoch,      \* the generation a metric created now gets
    heartbeat,  \* CarbonStat.__heartbeat
    sending,    \* CarbonStat.__sending
    sock,       \* CarbonStat.__socket is set
    pc,         \* per flusher: the statement of send() it is at
    det,        \* per flusher: the local `metrics` of send()
    todo,       \* per flusher: names the for loop has not visited
    cur,        \* per flusher: the name of the loop variable `metric`
    packet,     \* per flusher: the local `packet`
    exc,        \* per flusher: the outcome of the sendto statement of its call
    ret,        \* per flusher: how its last send() call ended
    timer,      \* the producer's MetricTimer
    pret,       \* how the producer's last call ended
    \* history, read by the properties only
    born,       \* __heartbeat when the behaviour starts
    attempts,   \* send() calls that passed the guard
    nops,       \* producer calls so far
    before,     \* per flusher: the names in the live dict when it called send()
    written,    \* objects the producer changed since the last detach
    quiet,      \* detaches since the producer's last call (at most 2)
    dropped,    \* names the last flush sent and did not carry forward
    hist        \* the calls made so far, where a specification records them

vars == << ns, metrics, objs, epoch, heartbeat, sending, sock, pc, det, todo,
           cur, packet, exc, ret, timer, pret, born, attempts, nops, before,
           written, quiet, dropped, hist >>

registry == << ns, metrics, objs, epoch, heartbeat, sending, sock >>
flusher  == << pc, det, todo, cur, packet, exc, ret, attempts, before, dropped >>
producer == << timer, pret, nops >>

\* An object is identified by its name and the generation it was created in:
\* a name is created at most once between two detaches, because it stays in
\* the live dict until the next detach.
Gens     == 1 .. (MaxFlushes + 2)
NoMap    == [ n \in Names |-> 0 ]
Keys(m)  == { n \in Names : m[n] # 0 }
Refs(m)  == { << n, m[n] >> : n \in Keys(m) }
NoTimer  == [ metric |-> << >>, running |-> FALSE ]
Obj(o, id) == o[id[1]][id[2]]

\* The statements of send() between the detach and the return.
Flying == { "header", "format", "loop", "merge", "flag", "str", "sendto", "except", "finally" }

\* Reference counting: an object that neither the live dict, nor a flusher's
\* local dict, nor the producer's timer refers to is dropped.
Roots(m, d, t) ==
    Refs(m) \cup UNION { Refs(d[f]) : f \in Flushers } \cup { t.metric }
Collect(o, roots) ==
    [ n \in Names |-> [ g \in Gens |-> IF << n, g >> \in roots THEN o[n][g] ELSE Dead ] ]

\* CarbonStat.__getitem__: self.metrics.setdefault(name, CarbonMetric(name, ns))
GetItem(m, o, name, namespace, gen) ==
    IF m[name] # 0
    THEN [ metrics |-> m, objs |-> o, id |-> << name, m[name] >> ]
    ELSE [ metrics |-> [ m EXCEPT ![name] = gen ],
           objs |-> [ o EXCEPT ![name][gen] = NewMetric(name, namespace) ],
           id |-> << name, gen >> ]

\* A merge that puts back one key of `other` and not the rest.
UpdateOneKey(m, other) ==
    LET k == CHOOSE k \in Names : other[k] # 0 \/ Keys(other) = {}
    IN  [ n \in Names |-> IF n = k /\ other[n] # 0 THEN other[n] ELSE m[n] ]

\* dict.update: every key of `other` is bound to other's object
Update(m, other) == [ n \in Names |-> IF other[n] # 0 THEN other[n] ELSE m[n] ]

\* self.__heartbeat = -1
MinusOne == << -1, HalfWord - 1 >>

\* CarbonStat.__init__, but for the heartbeat, which InitAt takes
InitAt(h) ==
    /\ ns = "app"
    /\ metrics = NoMap
    /\ objs = [ n \in Names |-> [ g \in Gens |-> Dead ] ]
    /\ epoch = 1
    /\ heartbeat = h
    /\ sending = FALSE
    /\ sock = FALSE
    /\ pc = [ f \in Flushers |-> "idle" ]
    /\ det = [ f \in Flushers |-> NoMap ]
    /\ todo = [ f \in Flushers |-> {} ]
    /\ cur = [ f \in Flushers |-> "" ]
    /\ packet = [ f \in Flushers |-> << >> ]
    /\ exc = [ f \in Flushers |-> "none" ]
    /\ ret = [ f \in Flushers |-> "none" ]
    /\ timer = NoTimer
    /\ pret = "ok"
    /\ born = h
    /\ attempts = 0
    /\ nops = 0
    /\ before = [ f \in Flushers |-> {} ]
    /\ written = {}
    /\ quiet = 0
    /\ dropped = {}
    /\ hist = << >>

Init == InitAt(MinusOne)

\* ------------------------------------------------------------- producer
\* One statement of producer code is one step.

\* The history of a producer call that changes the object `id`.
Wrote(id) ==
    /\ nops < MaxOps
    /\ nops' = nops + 1
    /\ quiet' = 0
    /\ written' = IF \E f \in Flushers : pc[f] \in Flying
                  THEN written \cup { id } ELSE written

\* The metric after m.<method>(v)
Method(method, m, v) ==
    CASE method = "add"        -> MetricAdd(m, Some(v))
      [] method = "incr"       -> MetricAdd(m, Some(v))
      [] method = "decr"       -> MetricAdd(m, Some(-v))
      [] method = "set"        -> MetricSet(m, Some(v))
      [] method = "add_ex"     -> MetricAddEx(m, v)
      [] method = "accumulate" -> [ m EXCEPT !.accumulate = v ]

\* stat[name].<method>(v): look the metric up, then change it
Call(name, method, v) ==
    LET g == GetItem(metrics, objs, name, ns, epoch)
    IN  /\ Wrote(g.id)
        /\ metrics' = g.metrics
        /\ objs' = [ g.objs EXCEPT ![name][g.id[2]] = Method(method, @, v) ]
        /\ pret' = "ok"
        /\ UNCHANGED << ns, epoch, heartbeat, sending, sock, flusher, timer, born >>

\* stat[name].add(value); incr and decr are add(amount) and add(-amount)
Add(name) ==
    \E v \in Amounts : Call(name, "add", v) /\ UNCHANGED hist

\* stat[name].set(value)
Set(name) ==
    \E v \in Values : Call(name, "set", v) /\ UNCHANGED hist

\* stat[name].add_ex(value)
AddEx(name) ==
    \E v \in Elapsed : Call(name, "add_ex", v) /\ UNCHANGED hist

\* stat[name].accumulate = True
SetAccumulate(name) ==
    Call(name, "accumulate", TRUE) /\ UNCHANGED hist

\* Metric.timer
MetricTimerOf(m) == [ m EXCEPT !.extended = TRUE ]

\* t = stat.timer(name): marks the metric extended, returns a started timer
Timer(name) ==
    LET g == GetItem(metrics, objs, name, ns, epoch)
    IN  /\ Wrote(g.id)
        /\ metrics' = g.metrics
        /\ timer' = [ metric |-> g.id, running |-> TRUE ]
        /\ pret' = "ok"
        /\ objs' = Collect([ g.objs EXCEPT ![name][g.id[2]] = MetricTimerOf(@) ],
                           Roots(metrics', det, timer'))
        /\ UNCHANGED << ns, epoch, heartbeat, sending, sock, flusher, born, hist >>

\* MetricTimer.start: self.running = True (start_time is the abstract instant)
MetricTimerStart(t) == [ t EXCEPT !.running = TRUE ]

\* A stop() that records an interval whether the timer runs or not.
MetricTimerStopAlways(t, o, v) ==
    [ timer |-> [ t EXCEPT !.running = FALSE ],
      objs |-> [ o EXCEPT ![t.metric[1]][t.metric[2]] = MetricAddEx(@, v) ],
      raised |-> FALSE ]

\* MetricTimer.stop, v being time.time() - self.start_time: the timer and
\* the heap after the call, and whether it raised Exception
MetricTimerStop(t, o, v) ==
    IF t.running
    THEN [ timer |-> [ t EXCEPT !.running = FALSE ],
           objs |-> [ o EXCEPT ![t.metric[1]][t.metric[2]] = MetricAddEx(@, v) ],
           raised |-> FALSE ]
    ELSE [ timer |-> t, objs |-> o, raised |-> TRUE ]

\* An __exit__ that calls stop() without looking at self.running.
MetricTimerExitAlways(t, o, v) == MetricTimerStop(t, o, v)

\* MetricTimer.__exit__: if self.running: self.stop()
MetricTimerExit(t, o, v) ==
    IF t.running
    THEN MetricTimerStop(t, o, v)
    ELSE [ timer |-> t, objs |-> o, raised |-> FALSE ]

\* t.start() on a stopped timer
TimerStart ==
    /\ timer.metric # None
    /\ ~timer.running
    /\ nops < MaxOps
    /\ nops' = nops + 1
    /\ timer' = MetricTimerStart(timer)
    /\ pret' = "ok"
    /\ UNCHANGED << registry, flusher, born, hist, written, quiet >>

\* t.stop()
TimerStop ==
    /\ timer.metric # None
    /\ \E v \in Elapsed :
         LET r == MetricTimerStop(timer, objs, v)
         IN  /\ objs' = r.objs
             /\ timer' = r.timer
             /\ pret' = IF r.raised THEN "Exception" ELSE "ok"
    /\ IF timer.running
       THEN Wrote(timer.metric)
       ELSE /\ nops < MaxOps
            /\ nops' = nops + 1
            /\ UNCHANGED << written, quiet >>
    /\ UNCHANGED << ns, metrics, epoch, heartbeat, sending, sock, flusher, born, hist >>

Producer ==
    \/ \E name \in Names : Add(name)
    \/ \E name \in Names : Set(name)
    \/ \E name \in Names : AddEx(name)
    \/ \E name \in Names : SetAccumulate(name)
    \/ \E name \in Names : Timer(name)
    \/ TimerStart
    \/ TimerStop

\* ------------------------------------------------------------- send()
\* The caller enters send(); the locals of the call are fresh. (At most
\* MaxFlushes calls are allowed to pass the guard in one behaviour.)
SendCall(f) ==
    /\ pc[f] = "idle"
    /\ attempts + Cardinality({ g \in Flushers : pc[g] \in { "test", "set" } }) < MaxFlushes
    /\ pc' = [ pc EXCEPT ![f] = "test" ]
    /\ exc' = [ exc EXCEPT ![f] = "none" ]
    /\ ret' = [ ret EXCEPT ![f] = "none" ]
    /\ before' = [ before EXCEPT ![f] = Keys(metrics) ]
    /\ UNCHANGED << registry, producer, det, todo, cur, packet, born, hist, attempts,
                    written, quiet, dropped >>

\* A rejected call that leaves through the cleanup and clears the guard.
TestGuardClears(f) ==
    /\ pc[f] = "test"
    /\ IF sending
       THEN /\ pc' = [ pc EXCEPT ![f] = "idle" ]
            /\ ret' = [ ret EXCEPT ![f] = "noop" ]
            /\ sending' = FALSE
       ELSE /\ pc' = [ pc EXCEPT ![f] = "set" ]
            /\ UNCHANGED << ret, sending >>
    /\ UNCHANGED << ns, metrics, objs, epoch, heartbeat, sock, producer, det,
                    todo, cur, packet, exc, born, hist, attempts, before, written,
                    quiet, dropped >>

\* if self.__sending: return
TestGuard(f) ==
    /\ pc[f] = "test"
    /\ IF sending
       THEN /\ pc' = [ pc EXCEPT ![f] = "idle" ]
            /\ ret' = [ ret EXCEPT ![f] = "noop" ]
       ELSE /\ pc' = [ pc EXCEPT ![f] = "set" ]
            /\ ret' = ret
    /\ UNCHANGED << registry, producer, det, todo, cur, packet, exc, born, hist,
                    attempts, before, written, quiet, dropped >>

\* else: self.__sending = True
SetGuard(f) ==
    /\ pc[f] = "set"
    /\ sending' = TRUE
    /\ attempts' = attempts + 1
    /\ pc' = [ pc EXCEPT ![f] = "detach" ]
    /\ UNCHANGED << ns, metrics, objs, epoch, heartbeat, sock, producer, det,
                    todo, cur, packet, exc, ret, born, hist, before, written, quiet,
                    dropped >>

\* metrics, self.metrics = self.metrics, {}
Detach(f) ==
    /\ pc[f] = "detach"
    /\ det' = [ det EXCEPT ![f] = metrics ]
    /\ metrics' = NoMap
    /\ epoch' = epoch + 1
    /\ todo' = [ todo EXCEPT ![f] = Keys(metrics) ]
    /\ pc' = [ pc EXCEPT ![f] = "header" ]
    /\ written' = {}
    /\ quiet' = IF quiet < 2 THEN quiet + 1 ELSE quiet
    /\ UNCHANGED << ns, objs, heartbeat, sending, sock, producer, cur, packet,
                    exc, ret, born, hist, attempts, before, dropped >>

\* A counter that is never reduced: at 2 ** 32 - 1 it goes on to 2 ** 32.
NextHeartbeatNoWrap(h) ==
    IF h[2] + 1 < HalfWord THEN << h[1], h[2] + 1 >> ELSE << h[1] + 1, 0 >>

\* (self.__heartbeat + 1) % 2 ** 32
NextHeartbeat(h) ==
    IF h[2] + 1 < HalfWord
    THEN << h[1], h[2] + 1 >>
    ELSE << (h[1] + 1) % HalfWord, 0 >>

\* CarbonStat.heartbeat, first statement, entered from make_header:
\* self.__heartbeat = (self.__heartbeat + 1) % 2 ** 32
Heartbeat(f) ==
    /\ pc[f] = "header"
    /\ heartbeat' = NextHeartbeat(heartbeat)
    /\ pc' = [ pc EXCEPT ![f] = "format" ]
    /\ UNCHANGED << ns, metrics, objs, epoch, sending, sock, producer, det,
                    todo, cur, packet, exc, ret, born, hist, attempts, before,
                    written, quiet, dropped >>

\* CarbonStat.make_header: the heartbeat line, namespace-qualified
HeaderLine(namespace, h) ==
    << IF namespace # "" THEN << namespace, "heartbeat" >> ELSE << "heartbeat" >>,
       h, Some(Now) >>

\* return self.__heartbeat; packet = self.make_header()
MakeHeader(f) ==
    /\ pc[f] = "format"
    /\ packet' = [ packet EXCEPT ![f] = << HeaderLine(ns, heartbeat) >> ]
    /\ pc' = [ pc EXCEPT ![f] = "loop" ]
    /\ UNCHANGED << ns, metrics, objs, epoch, heartbeat, sending, sock, producer, det,
                    todo, cur, exc, ret, born, hist, attempts, before, written, quiet,
                    dropped >>

\* for metric in metrics.values(): if metric.accumulate:
\* (the dict's order is any order)
LoopNext(f) ==
    /\ pc[f] = "loop"
    /\ IF todo[f] = {}
       THEN /\ pc' = [ pc EXCEPT ![f] = "sendto" ]
            /\ UNCHANGED << todo, cur >>
       ELSE \E name \in todo[f] :
              /\ todo' = [ todo EXCEPT ![f] = @ \ {name} ]
              /\ cur' = [ cur EXCEPT ![f] = name ]
              /\ pc' = [ pc EXCEPT ![f] =
                           IF Obj(objs, << name, det[f][name] >>).accumulate
                           THEN "merge" ELSE "str" ]
    /\ UNCHANGED << registry, producer, det, packet, exc, ret, born, hist, attempts,
                    before, written, quiet, dropped >>

\* if not metric.extended: self[metric.name].add(metric.simple_value)
\* else: self.metrics[metric.name] = metric
AccumulateMerge(f) ==
    /\ pc[f] = "merge"
    /\ LET metric == Obj(objs, << cur[f], det[f][cur[f]] >>)
           g == GetItem(metrics, objs, metric.name, ns, epoch)
       IN  IF ~metric.extended
           THEN /\ metrics' = g.metrics
                /\ objs' = [ g.objs EXCEPT ![metric.name][g.id[2]] =
                                             MetricAdd(@, metric.simple_value) ]
           ELSE /\ metrics' = [ metrics EXCEPT ![metric.name] = det[f][cur[f]] ]
                /\ objs' = Collect(objs, Roots(metrics', det, timer))
    /\ pc' = [ pc EXCEPT ![f] = "flag" ]
    /\ UNCHANGED << ns, epoch, heartbeat, sending, sock, producer, det, todo,
                    cur, packet, exc, ret, born, hist, attempts, before, written,
                    quiet, dropped >>

\* An accumulate step that re-applies the value and leaves the flag of the
\* live metric as it is.
AccumulateFlagSkipped(f) ==
    /\ pc[f] = "flag"
    /\ pc' = [ pc EXCEPT ![f] = "str" ]
    /\ UNCHANGED << registry, producer, det, todo, cur, packet, exc, ret, born,
                    hist, attempts, before, written, quiet, dropped >>

\* self[metric.name].accumulate = True
AccumulateFlag(f) ==
    /\ pc[f] = "flag"
    /\ LET metric == Obj(objs, << cur[f], det[f][cur[f]] >>)
           g == GetItem(metrics, objs, metric.name, ns, epoch)
       IN  /\ metrics' = g.metrics
           /\ objs' = [ g.objs EXCEPT ![metric.name][g.id[2]].accumulate = TRUE ]
    /\ pc' = [ pc EXCEPT ![f] = "str" ]
    /\ UNCHANGED << ns, epoch, heartbeat, sending, sock, producer, det, todo,
                    cur, packet, exc, ret, born, hist, attempts, before, written,
                    quiet, dropped >>

\* packet += str(metric)
Serialize(f) ==
    /\ pc[f] = "str"
    /\ packet' = [ packet EXCEPT ![f] = @ \o Str(Obj(objs, << cur[f], det[f][cur[f]] >>)) ]
    /\ pc' = [ pc EXCEPT ![f] = "loop" ]
    /\ UNCHANGED << registry, producer, det, todo, cur, exc, ret, born, hist,
                    attempts, before, written, quiet, dropped >>

\* What `self.socket.sendto(packet, ...)` can do: the socket property raises
\* socket.error when no socket is cached and none can be created; sendto
\* raises socket.error when the datagram cannot be sent.
SendOutcomes(cached) ==
    { "sent", "sendto socket.error" } \cup
    (IF cached THEN {} ELSE { "socket socket.error" })

\* A handler that runs whatever the outcome, as a `finally` would.
CaughtAlways(e) == TRUE

\* A handler that sees only the errors of sendto, as when the socket is
\* created before the try statement is entered.
CaughtSendtoOnly(e) == e = "sendto socket.error"

\* except SocketEror: the outcomes the handler of send() catches
Caught(e) == e \in { "sendto socket.error", "socket socket.error" }

\* try: self.socket.sendto(packet, (self.host, self.port))
SendTo(f) ==
    /\ pc[f] = "sendto"
    /\ \E e \in SendOutcomes(sock) :
         /\ exc' = [ exc EXCEPT ![f] = e ]
         /\ sock' = (sock \/ e # "socket socket.error")
         /\ pc' = [ pc EXCEPT ![f] = IF Caught(e) THEN "except" ELSE "finally" ]
    /\ UNCHANGED << ns, metrics, objs, epoch, heartbeat, sending, producer, det,
                    todo, cur, packet, ret, born, hist, attempts, before, written,
                    quiet, dropped >>

\* A handler that restores the metrics only when sendto itself failed.
ExceptAfterSendtoOnly(f) ==
    /\ pc[f] = "except"
    /\ metrics' = IF exc[f] = "sendto socket.error"
                  THEN [ n \in Names |-> IF det[f][n] # 0 THEN det[f][n] ELSE metrics[n] ]
                  ELSE metrics
    /\ objs' = Collect(objs, Roots(metrics', det, timer))
    /\ pc' = [ pc EXCEPT ![f] = "finally" ]
    /\ UNCHANGED << ns, epoch, heartbeat, sending, sock, producer, det, todo,
                    cur, packet, exc, ret, born, hist, attempts, before, written,
                    quiet, dropped >>

\* except SocketEror as e: ... self.metrics.update(metrics)
Except(f) ==
    /\ pc[f] = "except"
    /\ metrics' = Update(metrics, det[f])
    /\ objs' = Collect(objs, Roots(metrics', det, timer))
    /\ pc' = [ pc EXCEPT ![f] = "finally" ]
    /\ UNCHANGED << ns, epoch, heartbeat, sending, sock, producer, det, todo,
                    cur, packet, exc, ret, born, hist, attempts, before, written,
                    quiet, dropped >>

\* A cleanup in an `else` clause: the guard is cleared only after a
\* successful send.
FinallyOnSuccess(f) ==
    /\ pc[f] = "finally"
    /\ sending' = (exc[f] # "sent")
    /\ ret' = [ ret EXCEPT ![f] =
                  IF exc[f] = "sent" \/ Caught(exc[f]) THEN "returned" ELSE "raised" ]
    /\ pc' = [ pc EXCEPT ![f] = "idle" ]
    /\ det' = [ det EXCEPT ![f] = NoMap ]
    /\ cur' = [ cur EXCEPT ![f] = "" ]
    /\ packet' = [ packet EXCEPT ![f] = << >> ]
    /\ objs' = Collect(objs, Roots(metrics, det', timer))
    /\ written' = {}
    /\ dropped' = IF exc[f] = "sent"
                  THEN { n \in Keys(det[f]) :
                           ~Obj(objs, << n, det[f][n] >>).accumulate }
                  ELSE {}
    /\ UNCHANGED << ns, metrics, epoch, heartbeat, sock, producer, todo, exc,
                    born, hist, attempts, before, quiet >>

\* finally: self.__sending = False; then the call returns, or the exception
\* no handler caught leaves send()
Finally(f) ==
    /\ pc[f] = "finally"
    /\ sending' = FALSE
    /\ ret' = [ ret EXCEPT ![f] =
                  IF exc[f] = "sent" \/ Caught(exc[f]) THEN "returned" ELSE "raised" ]
    /\ pc' = [ pc EXCEPT ![f] = "idle" ]
    /\ det' = [ det EXCEPT ![f] = NoMap ]
    /\ cur' = [ cur EXCEPT ![f] = "" ]
    /\ packet' = [ packet EXCEPT ![f] = << >> ]
    /\ objs' = Collect(objs, Roots(metrics, det', timer))
    /\ written' = {}
    /\ dropped' = IF exc[f] = "sent"
                  THEN { n \in Keys(det[f]) :
                           ~Obj(objs, << n, det[f][n] >>).accumulate }
                  ELSE {}
    /\ UNCHANGED << ns, metrics, epoch, heartbeat, sock, producer, todo, exc,
                    born, hist, attempts, before, quiet >>

Send(f) ==
    \/ SendCall(f)
    \/ TestGuard(f)
    \/ SetGuard(f)
    \/ Detach(f)
    \/ Heartbeat(f)
    \/ MakeHeader(f)
    \/ LoopNext(f)
    \/ AccumulateMerge(f)
    \/ AccumulateFlag(f)
    \/ Serialize(f)
    \/ SendTo(f)
    \/ Except(f)
    \/ Finally(f)

\* One flush driver and one producer.
Next == Producer \/ Send(1)

Spec == Init /\ [][Next]_vars

\* Two threads calling send() on the same registry, and a producer that
\* creates metrics and marks them accumulate.
NextThreads ==
    \/ \E name \in Names : SetAccumulate(name)
    \/ \E f \in Flushers : Send(f)

SpecThreads == Init /\ [][NextThreads]_vars

\* A registry that is new, or one that has made 2 ** 32 - 1 flush attempts.
NearWrap == << HalfWord - 1, HalfWord - 2 >>

InitWrap == \E h \in { MinusOne, NearWrap } : InitAt(h)

SpecWrap == InitWrap /\ [][Next]_vars

\* stat[name].add(v), recorded in hist with the generation current at the call
AddRecorded(name) ==
    \E v \in Amounts :
        /\ Call(name, "add", v)
        /\ hist' = Append(hist, << name, v, epoch >>)

\* One flush driver and a producer that adds to metrics and marks them
\* accumulate, every add being recorded.
NextRecover ==
    \/ \E name \in Names : AddRecorded(name)
    \/ \E name \in Names : SetAccumulate(name)
    \/ Send(1)

SpecRecover == Init /\ [][NextRecover]_vars

\* m = stat['a'], then m.<method>(v): the methods of Metric called in any
\* order on one metric, every call recorded in hist
MetricCall ==
    \E method \in { "add", "incr", "decr", "set", "add_ex" }, v \in Inputs :
        /\ Call("a", method, v)
        /\ hist' = Append(hist, << method, v >>)

NextMetric == MetricCall

SpecMetric == Init /\ [][NextMetric]_vars

\* A call of SpecTimer, recorded in hist by its name.
Recorded(call) ==
    /\ Len(hist) < MaxCalls
    /\ hist' = Append(hist, call)
    /\ UNCHANGED << nops, written, quiet >>

\* t = stat.timer('a')
TimerRecorded ==
    LET g == GetItem(metrics, objs, "a", ns, epoch)
    IN  /\ Recorded("timer")
        /\ metrics' = g.metrics
        /\ timer' = MetricTimerStart([ metric |-> g.id, running |-> FALSE ])
        /\ pret' = "ok"
        /\ objs' = Collect([ g.objs EXCEPT !["a"][g.id[2]] = MetricTimerOf(@) ],
                           Roots(metrics', det, timer'))
        /\ UNCHANGED << ns, epoch, heartbeat, sending, sock, flusher, born >>

\* t.__enter__(), the entry of `with t:`
EnterRecorded ==
    /\ timer.metric # None
    /\ Recorded("enter")
    /\ timer' = MetricTimerStart(timer)
    /\ pret' = "ok"
    /\ UNCHANGED << registry, flusher, born >>

\* t.start(), on a running timer as well
StartRecorded ==
    /\ timer.metric # None
    /\ Recorded("start")
    /\ timer' = MetricTimerStart(timer)
    /\ pret' = "ok"
    /\ UNCHANGED << registry, flusher, born >>

\* t.stop()
StopRecorded ==
    /\ timer.metric # None
    /\ Recorded("stop")
    /\ \E v \in Elapsed :
         LET r == MetricTimerStop(timer, objs, v)
         IN  /\ objs' = r.objs
             /\ timer' = r.timer
             /\ pret' = IF r.raised THEN "Exception" ELSE "ok"
    /\ UNCHANGED << ns, metrics, epoch, heartbeat, sending, sock, flusher, born >>

\* t.__exit__(...), the exit of `with t:`
ExitRecorded ==
    /\ timer.metric # None
    /\ Recorded("exit")
    /\ \E v \in Elapsed :
         LET r == MetricTimerExit(timer, objs, v)
         IN  /\ objs' = r.objs
             /\ timer' = r.timer
             /\ pret' = IF r.raised THEN "Exception" ELSE "ok"
    /\ UNCHANGED << ns, metrics, epoch, heartbeat, sending, sock, flusher, born >>

\* A producer that creates timers on one metric and calls their methods in
\* any order.
NextTimer ==
    \/ TimerRecorded
    \/ EnterRecorded
    \/ StartRecorded
    \/ StopRecorded
    \/ ExitRecorded

SpecTimer == Init /\ [][NextTimer]_vars

\* stat.set_namespace(namespace), recorded in hist with the generation
\* current at the call
SetNamespace(namespace) ==
    /\ nops < MaxOps
    /\ nops' = nops + 1
    /\ ns' = namespace
    /\ pret' = "ok"
    /\ hist' = Append(hist, << namespace, epoch >>)
    /\ UNCHANGED << metrics, objs, epoch, heartbeat, sending, sock, flusher,
                    timer, born, written, quiet >>

\* One flush driver and a producer that adds to metrics, marks them
\* accumulate and changes the namespace of the registry.
NextNs ==
    \/ \E namespace \in Namespaces : SetNamespace(namespace)
    \/ \E name \in Names : Add(name)
    \/ \E name \in Names : SetAccumulate(name)
    \/ Send(1)

SpecNs == Init /\ [][NextNs]_vars

\* ------------------------------------------------------------- properties
SocketErrors == { "sendto socket.error", "socket socket.error" }

\* C1: when send() has failed on a transport error and returned, every name
\* that was in the live dict when send() was called is in the live dict.
C1_FailedFlushKeepsNames ==
    \A f \in Flushers :
        (ret[f] = "returned" /\ exc[f] \in SocketErrors)
            => before[f] \subseteq Keys(metrics)

\* A failed send() has returned; both names were live before it and the
\* producer has not put them back itself.
C1_Witness ==
    /\ ret[1] = "returned"
    /\ exc[1] = "sendto socket.error"
    /\ before[1] = Names
    /\ quiet = 1

\* C2: every object the producer changed after the detach of a flush is
\* bound in the live dict when that flush ends (so the next flush sends it).
C2_PostDetachWritesKept ==
    \A f \in Flushers : pc[f] = "finally" => written \subseteq Refs(metrics)

\* C3: no object the producer changed after the detach of a flush is one of
\* the objects that flush detached and serializes.
C3_PostDetachWritesNotInBatch ==
    \A f \in Flushers : pc[f] \in Flying => written \cap Refs(det[f]) = {}

\* The number born + k of 32 bits, for k below HalfWord, computed from the
\* low half alone.
Plus(h, k) ==
    LET low == h[2] + k
    IN  IF low < HalfWord
        THEN << h[1] % HalfWord, low >>
        ELSE << (h[1] + 1) % HalfWord, low - HalfWord >>

\* C4: the heartbeat is incremented once per attempt, modulo 2^32: the
\* attempt number k of a registry emits (start + k) mod 2^32, where start is
\* -1 for a new registry, so the first attempt emits 0 and the attempt after
\* the one that emitted 2^32 - 1 emits 0; between attempts the counter holds
\* the value last emitted, whether that attempt succeeded or failed.
C4_HeartbeatOncePerAttempt ==
    LET done == attempts - Cardinality({ f \in Flushers : pc[f] \in { "detach", "header" } })
    IN  /\ heartbeat = IF done = 0 THEN born ELSE Plus(born, done)
        /\ \A f \in Flushers :
               /\ pc[f] \in Flying \ { "header", "format" }
                      => packet[f][1] = HeaderLine(ns, Plus(born, attempts))
               /\ born = MinusOne /\ attempts = 1 /\ pc[f] = "sendto"
                      => packet[f][1][2] = << 0, 0 >>

\* The attempt after the one that emitted 2^32 - 1 has built its header,
\* and the attempt before it had failed.
C4_Witness ==
    /\ born = NearWrap
    /\ attempts = 2
    /\ pc[1] = "sendto"
    /\ exc[1] = "none"
    /\ packet[1][1][2] = << 0, 0 >>
    /\ sock = FALSE

\* The metric name in the path of a line.
LineName(line) == IF line[1][1] \in Names THEN line[1][1] ELSE line[1][2]

\* C5: when a flush has sent its batch, no detached metric without the
\* accumulate flag is in the live dict; and the batch of a following flush,
\* with no producer call since before the detach of the sent one, starts
\* with the heartbeat line and has no line for any of those metrics.
C5_SentMetricsAreGone ==
    \A f \in Flushers :
        /\ pc[f] = "finally" /\ exc[f] = "sent"
               => \A n \in Keys(det[f]) :
                      ~Obj(objs, << n, det[f][n] >>).accumulate
                          => << n, det[f][n] >> \notin Refs(metrics)
        /\ pc[f] = "sendto" /\ quiet = 2
               => /\ packet[f][1] = HeaderLine(ns, heartbeat)
                  /\ \A i \in 2 .. Len(packet[f]) :
                         LineName(packet[f][i]) \notin dropped

\* The second of two flushes with no producer call since before the first
\* detach: the first sent both metrics, the second holds only the heartbeat
\* line with counter 1.
C5_Witness ==
    /\ pc[1] = "sendto"
    /\ quiet = 2
    /\ dropped = Names
    /\ packet[1] = << HeaderLine(ns, << 0, 1 >>) >>

\* C6 as claimed: when the socket cannot be created, no metric has been
\* detached.
C6_SocketFailureDetachesNothing ==
    \A f \in Flushers : exc[f] = "socket socket.error" => det[f] = NoMap

\* C6 as amended: the socket is created only by the sendto statement, after
\* the detach, the header and the loop; when it cannot be created the
\* handler merges the whole detached dict back: at the end of that flush
\* every detached name is bound in the live dict to the detached object.
C6_SocketFailureRestoresAll ==
    \A f \in Flushers :
        exc[f] = "socket socket.error" /\ pc[f] # "idle"
            => /\ pc[f] \in { "except", "finally" }
               /\ todo[f] = {}
               /\ Len(packet[f]) >= 1
               /\ pc[f] = "finally"
                      => \A n \in Keys(det[f]) : metrics[n] = det[f][n]

\* A flush that could not create the socket is about to end; it had
\* detached both metrics and the producer has written one of them since.
C6_Witness ==
    /\ pc[1] = "finally"
    /\ exc[1] = "socket socket.error"
    /\ Keys(det[1]) = Names
    /\ written # {}

\* C7: a send() call that finds the guard set returns at once: the step
\* that leaves the guard test ends the call, and the live dict, every
\* metric, the heartbeat, the guard and the socket are as before; the call
\* has built no packet and has not reached sendto.
C7_RejectedCallIsNoOp ==
    [][ \A f \in Flushers :
          (pc[f] = "test" /\ sending /\ pc'[f] # "test")
              => /\ pc'[f] = "idle"
                 /\ ret'[f] = "noop"
                 /\ exc'[f] = "none"
                 /\ packet'[f] = << >>
                 /\ det'[f] = NoMap
                 /\ UNCHANGED << ns, metrics, objs, epoch, heartbeat, sending, sock >>
      ]_vars

\* A call was rejected while the other thread's flush, which detached a
\* metric, is still between its detach and its end.
C7_Witness ==
    \E f, g \in Flushers :
        /\ ret[f] = "noop"
        /\ pc[f] = "idle"
        /\ pc[g] \in Flying
        /\ det[g] # NoMap
        /\ sending

\* C8: at most one send() call is past the guard at any time.
C8_OneFlushInFlight ==
    Cardinality({ f \in Flushers : pc[f] \in { "detach" } \cup Flying }) <= 1

\* C9: no send() call ends by raising: a call whose sendto statement met a
\* socket error, from the socket's creation or from the send, returns.
C9_TransportFaultsAbsorbed ==
    \A f \in Flushers :
        /\ ret[f] # "raised"
        /\ (pc[f] = "idle" /\ exc[f] \in SocketErrors) => ret[f] = "returned"

\* A call in which the socket could not be created has returned.
C9_Witness ==
    /\ pc[1] = "idle"
    /\ exc[1] = "socket socket.error"
    /\ ret[1] = "returned"

\* The paths of the three extended lines of a metric.
ExtendedPaths(m) == { Append(QName(m), v) : v \in { "min", "avg", "max" } }

\* C10: for every metric on the heap, str(metric) has one simple line, with
\* the metric's path and value, exactly when simple_value is set (0
\* included), followed by the lines of min, avg and max exactly when len is
\* not 0, and nothing else.
C10_LinesMatchContents ==
    \A n \in Names, g \in Gens :
        LET m == objs[n][g]
            s == Str(m)
            simple == IF m.simple_value # None THEN 1 ELSE 0
            extended == IF m.len > 0 THEN 3 ELSE 0
        IN  /\ Len(s) = simple + extended
            /\ simple = 1 => /\ s[1][1] = QName(m)
                             /\ s[1][2] = << m.simple_value[1], 1 >>
                             /\ s[1][3] # None
            /\ extended = 3 =>
                   /\ { s[simple + i][1] : i \in 1 .. 3 } = ExtendedPaths(m)
                   /\ \A i \in 1 .. 3 : s[simple + i][3] # None

\* A metric whose simple_value is 0 and that has no observation, and a
\* metric with a simple value and observations, are on the heap; and one
\* with neither.
C10_Witness ==
    /\ attempts > 0
    /\ \E n \in Names, g \in Gens :
           /\ objs[n][g].simple_value = Some(0)
           /\ objs[n][g].len = 0
           /\ Len(Str(objs[n][g])) = 1
    /\ \E n \in Names, g \in Gens :
           /\ objs[n][g].simple_value = None
           /\ objs[n][g].len > 0
           /\ Len(Str(objs[n][g])) = 3


\* The sum of the amounts the recorded calls added to `name` in generation
\* `gen`, i.e. since the last detach when gen is the current generation.
RECURSIVE Added(_, _, _)
Added(h, name, gen) ==
    IF h = << >> THEN 0
    ELSE (IF Head(h)[1] = name /\ Head(h)[3] = gen THEN Head(h)[2] ELSE 0)
         + Added(Tail(h), name, gen)

\* The live simple_value of every detached accumulate metric with a simple
\* value a is a plus what the producer added to that name since the detach.
Recovered ==
    \A n \in Keys(det[1]) :
        LET d == Obj(objs, << n, det[1][n] >>)
        IN  (d.accumulate /\ ~d.extended /\ d.simple_value # None)
            => /\ metrics[n] # 0
               /\ Obj(objs, << n, metrics[n] >>).simple_value
                    = Some(d.simple_value[1] + Added(hist, n, epoch))

\* C11: when a flush ends (the send succeeded, or the handler has merged the
\* detached dict back), a detached accumulate simple value a with the b the
\* producer added to that name during the flush gives a live value a + b.
C11_AccumulatedValueIsAdded ==
    [][ (pc[1] \in { "sendto", "except" } /\ pc'[1] = "finally") => Recovered' ]_vars

\* The aggregate of the live metric `m` continues the aggregate of `d`.
CarriesForward(d, m) ==
    /\ m.len >= d.len
    /\ m.sum >= d.sum
    /\ m.min # None /\ m.min[1] <= d.min[1]
    /\ m.max # None /\ m.max[1] >= d.max[1]

\* C12: when a flush ends, every detached metric with accumulate set and
\* extended observations has a live metric of its name that holds at least
\* the detached count, sum, min and max, however they were recorded.
C12_ExtendedAggregateCarried ==
    (pc[1] = "finally")
    => \A n \in Keys(det[1]) :
          LET d == Obj(objs, << n, det[1][n] >>)
          IN  (d.accumulate /\ d.len > 0)
              => /\ metrics[n] # 0
                 /\ CarriesForward(d, Obj(objs, << n, metrics[n] >>))

\* The values of the add_ex calls recorded in h, in order.
RECURSIVE Observations(_)
Observations(h) ==
    IF h = << >> THEN << >>
    ELSE (IF Head(h)[1] = "add_ex" THEN << Head(h)[2] >> ELSE << >>)
         \o Observations(Tail(h))

RECURSIVE SumOf(_)
SumOf(xs) == IF xs = << >> THEN 0 ELSE Head(xs) + SumOf(Tail(xs))

Smallest(xs) ==
    CHOOSE x \in { xs[i] : i \in 1 .. Len(xs) } : \A i \in 1 .. Len(xs) : x <= xs[i]
Largest(xs) ==
    CHOOSE x \in { xs[i] : i \in 1 .. Len(xs) } : \A i \in 1 .. Len(xs) : x >= xs[i]

\* C13: after add_ex calls with values v1..vn on a fresh metric, in between
\* any other calls, count = n, sum = v1 + ... + vn, min and max are the
\* smallest and largest vi and avg is sum / n; with no add_ex call count is 0
\* and min and max are the infinities the metric was created with.
C13_AggregateOfObservations ==
    (metrics["a"] # 0)
    => LET m  == Obj(objs, << "a", metrics["a"] >>)
           xs == Observations(hist)
       IN  /\ m.len = Len(xs)
           /\ m.sum = SumOf(xs)
           /\ IF xs = << >>
              THEN m.min = None /\ m.max = None
              ELSE /\ m.min = Some(Smallest(xs))
                   /\ m.max = Some(Largest(xs))
                   /\ MetricAvg(m) = << SumOf(xs), Len(xs) >>

C13_Witness ==
    /\ metrics["a"] # 0
    /\ Observations(hist) = << 0, -1, 1 >>
    /\ Obj(objs, << "a", metrics["a"] >>).min = Some(-1)
    /\ Obj(objs, << "a", metrics["a"] >>).max = Some(1)

\* What a recorded call adds to the simple value: incr(n) is +n, decr(n) -n.
Signed(e) ==
    CASE e[1] \in { "add", "incr" } -> e[2]
      [] e[1] = "decr"              -> -e[2]
      [] OTHER                      -> 0

\* The index of the last set in h, 0 when there is none.
LastSet(h) ==
    IF \E i \in 1 .. Len(h) : h[i][1] = "set"
    THEN CHOOSE i \in 1 .. Len(h) :
           /\ h[i][1] = "set"
           /\ \A j \in (i + 1) .. Len(h) : h[j][1] # "set"
    ELSE 0

RECURSIVE SignedFrom(_, _)
SignedFrom(h, i) ==
    IF i > Len(h) THEN 0 ELSE Signed(h[i]) + SignedFrom(h, i + 1)

\* C14: simple_value is the argument of the last set (nothing when there is
\* none) plus the sum of the values added after it, incr(n) counting as +n
\* and decr(n) as -n; it is None while no add, incr, decr or set was called.
C14_SimpleValueIsSum ==
    (metrics["a"] # 0)
    => LET m == Obj(objs, << "a", metrics["a"] >>)
           k == LastSet(hist)
       IN  m.simple_value =
             IF \E i \in 1 .. Len(hist) : hist[i][1] \in { "add", "incr", "decr", "set" }
             THEN Some((IF k = 0 THEN 0 ELSE hist[k][2]) + SignedFrom(hist, k + 1))
             ELSE None

C14_Witness ==
    /\ metrics["a"] # 0
    /\ hist = << << "incr", 1 >>, << "set", -1 >>, << "decr", 1 >> >>
    /\ Obj(objs, << "a", metrics["a"] >>).simple_value = Some(-2)

\* The metric the producer's timer is bound to.
TimedMetric == Obj(objs, timer.metric)

\* C15: a stop() on a timer that is not running raises, leaves every metric
\* as it was and leaves the timer not running; a stop() on a running timer
\* does not raise and adds exactly one observation to the bound metric.
C15_StopWhenNotRunningRecordsNothing ==
    [][ (hist' = Append(hist, "stop"))
        => IF timer.running
           THEN /\ pret' = "ok"
                /\ TimedMetric'.len = TimedMetric.len + 1
           ELSE /\ pret' = "Exception"
                /\ objs' = objs
                /\ timer' = timer
                /\ ~timer'.running ]_vars

C15_Witness ==
    /\ hist = << "timer", "stop", "stop" >>
    /\ pret = "Exception"
    /\ TimedMetric.len = 1

\* The calls of h that found the timer running: the call before them is
\* the creation of a timer, an __enter__ or a start().
EndedInterval(h) ==
    { i \in 2 .. Len(h) :
        h[i] \in { "stop", "exit" } /\ h[i - 1] \in { "timer", "enter", "start" } }

\* C16: the metric holds one observation for every stop() and every scope
\* exit that found the timer running and none for any other call (a start()
\* on a running timer, an exit after stop()), and a scope exit never raises.
C16_ScopeExitStopsOnlyIfRunning ==
    (hist # << >>)
    => /\ TimedMetric.len = Cardinality(EndedInterval(hist))
       /\ (hist[Len(hist)] = "exit") => (pret = "ok" /\ ~timer.running)

C16_Witness ==
    /\ hist = << "timer", "enter", "stop", "start", "stop", "start", "exit" >>
    /\ TimedMetric.len = 3
    /\ pret = "ok"

\* C17: after a flush whose sendto failed no socket is cached, so that the
\* next attempt creates one; after a successful send the socket is cached;
\* after a failed creation none is cached.
C17_SendFailureDropsSocket ==
    \A f \in Flushers :
        (pc[f] = "idle" /\ ret[f] = "returned")
        => /\ (exc[f] = "sendto socket.error") => ~sock
           /\ (exc[f] = "sent") => sock
           /\ (exc[f] = "socket socket.error") => ~sock

\* C18: whenever no send() call is between the guard and its end, the guard
\* is clear, whatever the outcomes of the attempts before; so no call of the
\* single flush driver is rejected by the guard.
C18_GuardClearedAfterFlush ==
    /\ (\A f \in Flushers : pc[f] \notin { "detach" } \cup Flying) => ~sending
    /\ ret[1] # "noop"

C18_Witness ==
    /\ attempts = 2
    /\ pc[1] = "detach"
    /\ ~sock
    /\ sending

\* C19: when a flush ends, on success and on failure, the live dict holds a
\* metric with accumulate set under the name of every detached metric that
\* has accumulate set; so the name is detached, and carried, by every later
\* flush as well.
C19_AccumulateFlagPersists ==
    (pc[1] = "finally")
    => \A n \in Keys(det[1]) :
          Obj(objs, << n, det[1][n] >>).accumulate
          => /\ metrics[n] # 0
             /\ Obj(objs, << n, metrics[n] >>).accumulate

C19_Witness ==
    /\ pc[1] = "finally"
    /\ exc[1] = "sent"
    /\ attempts = 2
    /\ \E n \in Keys(det[1]) :
         /\ Obj(objs, << n, det[1][n] >>).accumulate
         /\ ~Obj(objs, << n, det[1][n] >>).extended
         /\ metrics[n] \notin { 0, det[1][n] }
         /\ Obj(objs, << n, metrics[n] >>).accumulate

\* The namespace a line is qualified with, "" when it has none.
LineNamespace(line) ==
    IF line[1][1] \in Namespaces \ { "" } THEN line[1][1] ELSE ""

\* C20: in a batch built with no set_namespace call since the detach, every
\* line, the heartbeat line and the line of a metric created before the
\* last set_namespace alike, carries the namespace of the registry.
C20_LinesCarryRegistryNamespace ==
    (/\ pc[1] = "sendto"
     /\ \A i \in 1 .. Len(hist) : hist[i][2] # epoch)
    => \A i \in 1 .. Len(packet[1]) : LineNamespace(packet[1][i]) = ns

=============================================================================
